---- MODULE Spec2Model ----
(***************************************************************************)
(* Rotating ASCII exporter (src/unnamed/part_000): the Blender operator    *)
(* that writes rotating_ascii.py, and the script it writes -- rotate,      *)
(* project, rasterise (bresenham), composite, present, advance angles.     *)
(*                                                                         *)
(* Specifications                                                          *)
(*   Spec       the operator run on a scene, then the written script run   *)
(*   SpecScript the written script run after its DIST line was edited      *)
(*   SpecBres   one call of bresenham, one loop iteration per step         *)
(*                                                                         *)
(* Arithmetic.  The script computes in Python floats.  The model computes  *)
(* the same expressions in exact rational arithmetic over integers and     *)
(* applies int() as truncation toward zero.  Angles are counted in quarter *)
(* turns, for which cos and sin are exactly -1, 0 or 1; vertex coordinates *)
(* of the model meshes are integers after normalisation.  With cos and sin *)
(* exact (as they are at angle 0) the float pipeline gives the same        *)
(* projected points, colours and frames on every input of the model.       *)
(*                                                                         *)
(* Interrupts.  The user's interrupt is delivered while the driver is in   *)
(* its try block; a further interrupt inside a handler is not modelled.    *)
(***************************************************************************)
EXTENDS Integers, Sequences, FiniteSets, TLC

VARIABLES
    \* ---- bresenham(x1, y1, x2, y2, color1, color2): arguments and locals
    x1, y1, x2, y2, color1, color2,
    current_x, current_y, err, k, points, bpc,
    \* ---- Blender side: the scene, the panel properties, the operator's reports
    active_object, props, report,
    \* ---- rotating_ascii.py: the constants written into the script
    WIDTH, HEIGHT, SCALE_X, SCALE_Y, LINE_CHAR, DIST, vertices, edges,
    rot_speed_x, rot_speed_y, rot_speed_z,
    \* ---- rotating_ascii.py: the driver's variables
    use_colors, angle_x, angle_y, angle_z, rotated, projected, object_points,
    \* ---- control position, the pending exception, and the terminal
    pc, exc, out, screen, frames

bvars == <<x1, y1, x2, y2, color1, color2, current_x, current_y, err, k, points, bpc>>

blvars == <<active_object, props, report>>

cvars == <<WIDTH, HEIGHT, SCALE_X, SCALE_Y, LINE_CHAR, DIST, vertices, edges,
           rot_speed_x, rot_speed_y, rot_speed_z>>

dvars == <<use_colors, angle_x, angle_y, angle_z, rotated, projected, object_points>>

tvars == <<pc, exc, out, screen, frames>>

vars == <<bvars, blvars, cvars, dvars, tvars>>

----------------------------------------------------------------------------
\* Bounds of the model

\* bresenham endpoints are drawn from 0..MaxCoord in both axes
MaxCoord == 3

\* the animation loop is followed for this many presented frames
MaxFrames == 2

----------------------------------------------------------------------------
\* Python built-ins used by the script

None == "None"

Abs(n) == IF n < 0 THEN -n ELSE n

Max2(a, b) == IF a >= b THEN a ELSE b

\* int(num / den) for a float quotient: truncation toward zero, den # 0
IntTrunc(num, den) ==
    LET n == IF den < 0 THEN -num ELSE num
        d == Abs(den)
    IN  IF n >= 0 THEN n \div d ELSE -((-n) \div d)

----------------------------------------------------------------------------
\* bresenham (generated script)

\* dx = abs(x2 - x1); dy = abs(y2 - y1)
Dx(ln) == Abs(ln.x2 - ln.x1)
Dy(ln) == Abs(ln.y2 - ln.y1)

\* sx = 1 if x1 < x2 else -1; sy = 1 if y1 < y2 else -1
Sx(ln) == IF ln.x1 < ln.x2 THEN 1 ELSE -1
Sy(ln) == IF ln.y1 < ln.y2 THEN 1 ELSE -1

\* a slip: the number of steps taken as the Manhattan length
StepsManhattan(ln) == Max2(Dx(ln) + Dy(ln), 1)

\* steps = max(dx, dy, 1)
Steps(ln) == Max2(Max2(Dx(ln), Dy(ln)), 1)

\* use_col = color1 is not None and color2 is not None
UseCol(ln) == ln.color1 # None /\ ln.color2 # None

\* int(color1[c] + fraction * (color2[c] - color1[c])), fraction = k / steps
Interp(a, b, kk, steps) == IntTrunc(a * steps + kk * (b - a), steps)

\* locals before the loop: err = dx - dy, k = 0, current = (x1, y1)
BresStart(ln) == [x |-> ln.x1, y |-> ln.y1, err |-> Dx(ln) - Dy(ln), k |-> 0]

\* the point appended at the top of each iteration
Emit(ln, st) ==
    IF UseCol(ln)
    THEN <<st.x, st.y,
           <<Interp(ln.color1[1], ln.color2[1], st.k, Steps(ln)),
             Interp(ln.color1[2], ln.color2[2], st.k, Steps(ln)),
             Interp(ln.color1[3], ln.color2[3], st.k, Steps(ln))>> >>
    ELSE <<st.x, st.y>>

\* a slip: the break tests the x coordinate alone
AtEndXOnly(ln, st) == st.x = ln.x2

\* if current_x == x2 and current_y == y2: break
AtEnd(ln, st) == st.x = ln.x2 /\ st.y = ln.y2

\* a slip: the second if written as elif, so one axis moves per iteration
AdvanceElif(ln, st) ==
    LET e2    == 2 * st.err
        stepx == e2 > -Dy(ln)
        stepy == ~stepx /\ e2 < Dx(ln)
    IN  [x   |-> IF stepx THEN st.x + Sx(ln) ELSE st.x,
         y   |-> IF stepy THEN st.y + Sy(ln) ELSE st.y,
         err |-> st.err - (IF stepx THEN Dy(ln) ELSE 0) + (IF stepy THEN Dx(ln) ELSE 0),
         k   |-> st.k + 1]

\* e2 = 2 * err; the two independent ifs; k += 1
Advance(ln, st) ==
    LET e2    == 2 * st.err
        stepx == e2 > -Dy(ln)
        stepy == e2 < Dx(ln)
    IN  [x   |-> IF stepx THEN st.x + Sx(ln) ELSE st.x,
         y   |-> IF stepy THEN st.y + Sy(ln) ELSE st.y,
         err |-> st.err - (IF stepx THEN Dy(ln) ELSE 0) + (IF stepy THEN Dx(ln) ELSE 0),
         k   |-> st.k + 1]

\* the coordinates of an emitted point
XY(pt) == <<pt[1], pt[2]>>

\* the set of coordinates of a sequence of points
PointSet(pts) == { XY(pts[i]) : i \in 1 .. Len(pts) }

Line(a1, b1, a2, b2, c1, c2) ==
    [x1 |-> a1, y1 |-> b1, x2 |-> a2, y2 |-> b2, color1 |-> c1, color2 |-> c2]

\* while True: the points appended from the iteration in state st onwards
RECURSIVE BresLoop(_, _)
BresLoop(ln, st) ==
    << Emit(ln, st) >> \o (IF AtEnd(ln, st) THEN <<>> ELSE BresLoop(ln, Advance(ln, st)))

\* the whole call, as the compositor uses it
bresenham(a1, b1, a2, b2, c1, c2) ==
    LET ln == Line(a1, b1, a2, b2, c1, c2) IN BresLoop(ln, BresStart(ln))

----------------------------------------------------------------------------
\* Blender side: RotatingASCIIProperties and RotatingASCIIOperator.execute

\* hard minima of the properties
WidthMin == 10
HeightMin == 5
DistMin == 1

\* a property with a hard minimum stores an assigned value clamped to it
\* (a slip: the minimum left out, so the assigned value is stored as it is)
PropertyNoMin(value, minimum) == value

PropertyMin(value, minimum) == IF value < minimum THEN minimum ELSE value

\* line_char values: '#' and a block character the terminal cannot encode
Hash == "#"
Block == "U+2588"

\* what the user may type into the panel; rot speeds are in quarter turns
PanelRequests ==
    [width : {0, 10, 12}, height : {-1, 5}, scale : {<<3, 2>>, <<8, 4>>},
     dist : {0, 4}, line_char : {Hash, Block},
     rot_speed : {<<0, 0, 0>>, <<1, 0, 0>>, <<0, 1, 2>>},
     use_vertex_colors : BOOLEAN]

\* the property group after the user's edits
PropsOf(req) ==
    [width             |-> PropertyMin(req.width, WidthMin),
     height            |-> PropertyMin(req.height, HeightMin),
     scale_x           |-> req.scale[1],
     scale_y           |-> req.scale[2],
     dist              |-> PropertyMin(req.dist, DistMin),
     line_char         |-> req.line_char,
     rot_speed_x       |-> req.rot_speed[1],
     rot_speed_y       |-> req.rot_speed[2],
     rot_speed_z       |-> req.rot_speed[3],
     use_vertex_colors |-> req.use_vertex_colors]

\* vertex colours of a colour attribute: channels in halves (0, 1/2, 1)
OctaColors == << <<2, 0, 0>>, <<0, 2, 0>>, <<0, 0, 2>>,
                 <<2, 2, 0>>, <<1, 1, 1>>, <<0, 1, 2>> >>

\* a colour attribute of the mesh; NoAttribute when the mesh has none
ColorAttribute(domain, data) == [domain |-> domain, data |-> data]
NoAttribute == ColorAttribute("NONE", <<>>)

SceneObject(type, vs, es, attr) ==
    [type |-> type, vertices |-> vs, edges |-> es, active_color |-> attr]

\* context.active_object when nothing is active
NoObject == SceneObject("NONE", <<>>, <<>>, NoAttribute)

MeshObject(vs, es, attr) == SceneObject("MESH", vs, es, attr)

OctaVerts == << <<-1, 0, 0>>, <<1, 0, 0>>, <<0, -1, 0>>,
                <<0, 1, 0>>, <<0, 0, -1>>, <<0, 0, 1>> >>
OctaEdges == << <<0, 1>>, <<2, 3>>, <<4, 5>>, <<0, 2>> >>

\* the scenes the operator is run on: nothing selected, a camera, and meshes
\* (no vertices; one vertex; an off-centre segment; three crossing axes with
\* per-vertex colours, with per-corner colours, without colours)
Objects ==
    { NoObject,
      SceneObject("CAMERA", <<>>, <<>>, NoAttribute),
      MeshObject(<<>>, <<>>, NoAttribute),
      MeshObject(<< <<3, 1, 0>> >>, <<>>, NoAttribute),
      MeshObject(<< <<0, 0, 0>>, <<4, 0, 0>> >>, << <<0, 1>> >>,
                 ColorAttribute("POINT", << <<2, 1, 0>>, <<0, 0, 2>> >>)),
      MeshObject(OctaVerts, OctaEdges, ColorAttribute("POINT", OctaColors)),
      MeshObject(OctaVerts, OctaEdges, ColorAttribute("CORNER", OctaColors)),
      MeshObject(OctaVerts, OctaEdges, NoAttribute) }

RECURSIVE VecSum(_, _)
VecSum(vs, i) ==
    IF i > Len(vs) THEN <<0, 0, 0>>
    ELSE LET r == VecSum(vs, i + 1)
         IN  <<vs[i][1] + r[1], vs[i][2] + r[2], vs[i][3] + r[3]>>

VecSub(a, b) == <<a[1] - b[1], a[2] - b[2], a[3] - b[3]>>

\* Vector / n and Vector * (1 / n); exact on the model's meshes
VecDiv(a, n) == <<a[1] \div n, a[2] \div n, a[3] \div n>>

\* Vector.length; exact on the model's meshes
VecLength(a) ==
    LET q == a[1] * a[1] + a[2] * a[2] + a[3] * a[3]
    IN  CHOOSE r \in 0 .. q : r * r <= q /\ (r + 1) * (r + 1) > q

SeqMax(S) == CHOOSE m \in S : \A n \in S : m >= n

\* center = sum(v.co) / len(vertices)
Center(mesh) == VecDiv(VecSum(mesh.vertices, 1), Len(mesh.vertices))

\* max_dist = max((v.co - center).length)
MaxDist(mesh) ==
    SeqMax({ VecLength(VecSub(mesh.vertices[i], Center(mesh))) : i \in 1 .. Len(mesh.vertices) })

\* vert = (v.co - center) * scale_factor, scale_factor = 1 / max_dist if max_dist > 0 else 1
Normalized(mesh, i) ==
    LET d == VecSub(mesh.vertices[i], Center(mesh))
    IN  IF MaxDist(mesh) > 0 THEN VecDiv(d, MaxDist(mesh)) ELSE d

\* include_colors = use_vertex_colors and color_attr and color_attr.domain == 'POINT'
IncludeColors(mesh, pr) ==
    /\ pr.use_vertex_colors
    /\ mesh.active_color # NoAttribute
    /\ mesh.active_color.domain = "POINT"

\* int(col[c] * 255) for a channel of n halves
Channel(n) == IntTrunc(n * 255, 2)

\* the vertices list written into the script
ScriptVertices(mesh, pr) ==
    [i \in 1 .. Len(mesh.vertices) |->
        LET v == Normalized(mesh, i)
        IN  IF IncludeColors(mesh, pr)
            THEN LET col == mesh.active_color.data[i]
                 IN  <<v[1], v[2], v[3], Channel(col[1]), Channel(col[2]), Channel(col[3])>>
            ELSE v]

Report(level, text) == [level |-> level, text |-> text]

\* the constants of the script text that execute builds, in the order of cvars
ScriptText(mesh, pr, dist) ==
    << pr.width, pr.height, pr.scale_x, pr.scale_y, pr.line_char, dist,
       ScriptVertices(mesh, pr), mesh.edges,
       pr.rot_speed_x, pr.rot_speed_y, pr.rot_speed_z >>

\* with open(filepath, 'w') as f: f.write(script)
WriteScript(t) ==
    /\ WIDTH' = t[1] /\ HEIGHT' = t[2] /\ SCALE_X' = t[3] /\ SCALE_Y' = t[4]
    /\ LINE_CHAR' = t[5] /\ DIST' = t[6] /\ vertices' = t[7] /\ edges' = t[8]
    /\ rot_speed_x' = t[9] /\ rot_speed_y' = t[10] /\ rot_speed_z' = t[11]

\* RotatingASCIIOperator.execute
execute ==
    /\ pc = "blender"
    /\ IF active_object = NoObject \/ active_object.type # "MESH"
       THEN /\ report' = Append(report, Report("ERROR", "Please select a mesh object"))
            /\ pc' = "CANCELLED"
            /\ UNCHANGED cvars
       ELSE IF Len(active_object.vertices) = 0
       THEN /\ report' = Append(report, Report("ERROR", "Mesh has no vertices"))
            /\ pc' = "CANCELLED"
            /\ UNCHANGED cvars
       ELSE /\ WriteScript(ScriptText(active_object, props, props.dist))
            /\ report' =
                (IF props.use_vertex_colors /\ ~IncludeColors(active_object, props)
                 THEN Append(report, Report("WARNING", "Vertex colors not available"))
                 ELSE report)
                \o << Report("INFO", "Rotating ASCII script saved") >>
            /\ pc' = "FINISHED"
    /\ UNCHANGED <<active_object, props, dvars, exc, out, screen, frames, bvars>>

\* the user runs the written rotating_ascii.py
run_script ==
    /\ pc = "FINISHED"
    /\ pc' = "try"
    /\ UNCHANGED <<blvars, cvars, dvars, exc, out, screen, frames, bvars>>

----------------------------------------------------------------------------
\* rotating_ascii.py: the pipeline stages

\* math.cos and math.sin of an angle of q quarter turns
Cos(q) == CASE q % 4 = 0 -> 1 [] q % 4 = 1 -> 0 [] q % 4 = 2 -> -1 [] OTHER -> 0
Sin(q) == CASE q % 4 = 0 -> 0 [] q % 4 = 1 -> 1 [] q % 4 = 2 -> 0 [] OTHER -> -1

\* rotate_point: about X, then Y, then Z
rotate_point(x, y, z, ax, ay, az) ==
    LET yA == y * Cos(ax) - z * Sin(ax)
        zA == y * Sin(ax) + z * Cos(ax)
        xB == x * Cos(ay) + zA * Sin(ay)
        zB == -x * Sin(ay) + zA * Cos(ay)
        xC == xB * Cos(az) - yA * Sin(az)
        yC == xB * Sin(az) + yA * Cos(az)
    IN  <<xC, yC, zB>>

\* the rotated list: (rx, ry, rz, *vertex[3:])
RotateAll(vs, ax, ay, az) ==
    [i \in 1 .. Len(vs) |->
        LET r == rotate_point(vs[i][1], vs[i][2], vs[i][3], ax, ay, az)
        IN  IF Len(vs[i]) > 3 THEN r \o SubSeq(vs[i], 4, Len(vs[i])) ELSE r]

TRANSLATE_X == WIDTH \div 2
TRANSLATE_Y == HEIGHT \div 2

\* the divisor of the perspective factor: DIST + rz + 2
Denominator(r) == DIST + r[3] + 2

\* px = int(TRANSLATE_X + factor * rx * SCALE_X), py = int(TRANSLATE_Y - factor * ry * SCALE_Y)
\* with factor = DIST / (DIST + rz + 2)
Project(r) ==
    LET den == Denominator(r)
    IN  << IntTrunc(TRANSLATE_X * den + DIST * r[1] * SCALE_X, den),
           IntTrunc(TRANSLATE_Y * den - DIST * r[2] * SCALE_Y, den) >>

ProjectAll(rot) == [i \in 1 .. Len(rot) |-> Project(rot[i])]

\* the division raises ZeroDivisionError for some vertex
DivisionByZero(rot) == \E i \in 1 .. Len(rot) : Denominator(rot[i]) = 0

\* a slip: the upper limits included
InBoundsInclusive(px, py) == 0 <= px /\ px <= WIDTH /\ 0 <= py /\ py <= HEIGHT

\* if 0 <= px < WIDTH and 0 <= py < HEIGHT
InBounds(px, py) == 0 <= px /\ px < WIDTH /\ 0 <= py /\ py < HEIGHT

\* the coordinates recorded in the frame point set (dict keys or set members)
Keys(op, coloured) == IF coloured THEN DOMAIN op ELSE op

\* the indices of the points of a line that pass the bounds test
Kept(pts) == { i \in 1 .. Len(pts) : InBounds(pts[i][1], pts[i][2]) }

\* the last of the kept points of a line that lies on coordinate q
LastAt(pts, q) ==
    CHOOSE i \in Kept(pts) :
        /\ XY(pts[i]) = q
        /\ \A j \in Kept(pts) : XY(pts[j]) = q => j <= i

\* a slip: a coordinate already in the dict keeps its colour
PutLineKeepFirst(op, pts, coloured) ==
    LET new == { XY(pts[i]) : i \in Kept(pts) }
    IN  IF coloured
        THEN [q \in DOMAIN op \cup new |->
                 IF q \in DOMAIN op THEN op[q] ELSE pts[LastAt(pts, q)][3]]
        ELSE op \cup new

\* for pt in line_points: if in bounds, object_points[(px, py)] = col or
\* object_points.add((px, py)); the assignments taken in list order, so the
\* last one made to a coordinate is the one that stays
PutLine(op, pts, coloured) ==
    LET new == { XY(pts[i]) : i \in Kept(pts) }
    IN  IF coloured
        THEN [q \in DOMAIN op \cup new |->
                 IF q \in new THEN pts[LastAt(pts, q)][3] ELSE op[q]]
        ELSE op \cup new

\* line_points of edge number e (counted from 1) of the edge list
EdgeLine(proj, rot, es, e, coloured) ==
    LET i == es[e][1] + 1
        j == es[e][2] + 1
    IN  IF coloured
        THEN bresenham(proj[i][1], proj[i][2], proj[j][1], proj[j][2],
                       SubSeq(rot[i], 4, Len(rot[i])), SubSeq(rot[j], 4, Len(rot[j])))
        ELSE bresenham(proj[i][1], proj[i][2], proj[j][1], proj[j][2], None, None)

\* for i, j in edges: the frame point set after the first e edges
RECURSIVE PutEdges(_, _, _, _, _, _)
PutEdges(op, proj, rot, es, e, coloured) ==
    IF e = 0 THEN op
    ELSE PutLine(PutEdges(op, proj, rot, es, e - 1, coloured),
                 EdgeLine(proj, rot, es, e, coloured), coloured)

\* object_points = {} or set(), then every edge in edge-list order
Composite(proj, rot, es, coloured) ==
    PutEdges(IF coloured THEN <<>> ELSE {}, proj, rot, es, Len(es), coloured)

\* the cells of the canvas, and their place in the drawing order
Cells == (0 .. WIDTH - 1) \X (0 .. HEIGHT - 1)
Order(c) == c[2] * WIDTH + c[1]

Blank == " "
Unwritten == ""

\* what the draw loop writes for a cell
CellText(op, c, coloured) ==
    IF c \in Keys(op, coloured)
    THEN IF coloured THEN <<op[c][1], op[c][2], op[c][3], LINE_CHAR>> ELSE <<LINE_CHAR>>
    ELSE <<Blank>>

\* sys.stdout.write of a string with this character succeeds
Encodable(ch) == ch # Block

\* the first cell in drawing order whose write raises UnicodeEncodeError
Failing(op, coloured) ==
    { c \in Keys(op, coloured) :
        /\ ~Encodable(LINE_CHAR)
        /\ \A d \in Keys(op, coloured) : Order(c) <= Order(d) }

----------------------------------------------------------------------------
\* rotating_ascii.py: the animation driver

LoopPcs == {"rotate", "project", "composite", "clear", "draw", "update", "sleep"}
RunningPcs == {"try"} \cup LoopPcs
TerminatedPcs == {"except KeyboardInterrupt", "except Exception", "finally", "input", "exit"}

Event(kind, detail) == [kind |-> kind, detail |-> detail]

\* use_colors = len(vertices[0]) > 3 if vertices else False; the angles set to 0
start ==
    /\ pc = "try"
    /\ use_colors' = (IF Len(vertices) > 0 THEN Len(vertices[1]) > 3 ELSE FALSE)
    /\ angle_x' = 0 /\ angle_y' = 0 /\ angle_z' = 0
    /\ pc' = "rotate"
    /\ UNCHANGED <<blvars, cvars, rotated, projected, object_points,
                   exc, out, screen, frames, bvars>>

\* Rotate all vertices
rotate_all ==
    /\ pc = "rotate"
    /\ rotated' = RotateAll(vertices, angle_x, angle_y, angle_z)
    /\ pc' = "project"
    /\ UNCHANGED <<blvars, cvars, use_colors, angle_x, angle_y, angle_z, projected,
                   object_points, exc, out, screen, frames, bvars>>

\* a slip: a zero divisor treated as an infinite factor, the vertex sent off
\* the canvas and the frame carried on with
project_all_unguarded ==
    /\ pc = "project"
    /\ projected' = [i \in 1 .. Len(rotated) |->
                        IF Denominator(rotated[i]) = 0 THEN <<-1, -1>>
                        ELSE Project(rotated[i])]
    /\ pc' = "composite"
    /\ UNCHANGED <<blvars, cvars, use_colors, angle_x, angle_y, angle_z, rotated,
                   object_points, exc, out, screen, frames, bvars>>

\* Project to 2D with perspective
project_all ==
    /\ pc = "project"
    /\ IF DivisionByZero(rotated)
       THEN /\ exc' = "float division by zero"
            /\ pc' = "except Exception"
            /\ UNCHANGED projected
       ELSE /\ projected' = ProjectAll(rotated)
            /\ pc' = "composite"
            /\ UNCHANGED exc
    /\ UNCHANGED <<blvars, cvars, use_colors, angle_x, angle_y, angle_z, rotated,
                   object_points, out, screen, frames, bvars>>

\* Collect all points on the edges
composite ==
    /\ pc = "composite"
    /\ object_points' = Composite(projected, rotated, edges, use_colors)
    /\ pc' = "clear"
    /\ UNCHANGED <<blvars, cvars, use_colors, angle_x, angle_y, angle_z, rotated,
                   projected, exc, out, screen, frames, bvars>>

\* Clear the screen
clear_screen ==
    /\ pc = "clear"
    /\ screen' = [c \in Cells |-> <<Unwritten>>]
    /\ out' = Append(out, Event("clear", ""))
    /\ pc' = "draw"
    /\ UNCHANGED <<blvars, cvars, dvars, exc, frames, bvars>>

\* Draw the frame
draw_frame ==
    /\ pc = "draw"
    /\ IF Failing(object_points, use_colors) = {}
       THEN /\ screen' = [c \in Cells |-> CellText(object_points, c, use_colors)]
            /\ out' = Append(out, Event("frame", ""))
            /\ frames' = frames + 1
            /\ pc' = "update"
            /\ UNCHANGED exc
       ELSE /\ screen' = [c \in Cells |->
                            IF \E f \in Failing(object_points, use_colors) : Order(c) < Order(f)
                            THEN <<Blank>> ELSE <<Unwritten>>]
            /\ exc' = "codec can't encode character"
            /\ pc' = "except Exception"
            /\ UNCHANGED <<out, frames>>
    /\ UNCHANGED <<blvars, cvars, dvars, bvars>>

\* a slip: only the first angle advanced
update_angles_x_only ==
    /\ pc = "update"
    /\ angle_x' = angle_x + rot_speed_x
    /\ pc' = "sleep"
    /\ UNCHANGED <<blvars, cvars, use_colors, angle_y, angle_z, rotated, projected,
                   object_points, exc, out, screen, frames, bvars>>

\* Update angles
update_angles ==
    /\ pc = "update"
    /\ angle_x' = angle_x + rot_speed_x
    /\ angle_y' = angle_y + rot_speed_y
    /\ angle_z' = angle_z + rot_speed_z
    /\ pc' = "sleep"
    /\ UNCHANGED <<blvars, cvars, use_colors, rotated, projected, object_points,
                   exc, out, screen, frames, bvars>>

\* time.sleep(PAUSE), then the next iteration
sleep ==
    /\ pc = "sleep"
    /\ frames < MaxFrames
    /\ pc' = "rotate"
    /\ UNCHANGED <<blvars, cvars, dvars, exc, out, screen, frames, bvars>>

\* the user's interrupt raises KeyboardInterrupt inside the try block
KeyboardInterrupt ==
    /\ pc \in RunningPcs
    /\ exc' = "KeyboardInterrupt"
    /\ pc' = "except KeyboardInterrupt"
    /\ UNCHANGED <<blvars, cvars, dvars, out, screen, frames, bvars>>

\* except KeyboardInterrupt: print("\nAnimation stopped.")
except_KeyboardInterrupt ==
    /\ pc = "except KeyboardInterrupt"
    /\ out' = Append(out, Event("Animation stopped.", ""))
    /\ pc' = "finally"
    /\ UNCHANGED <<blvars, cvars, dvars, exc, screen, frames, bvars>>

\* a slip: the handler placed inside the loop, so the loop goes on after it
except_Exception_in_loop ==
    /\ pc = "except Exception"
    /\ out' = Append(out, Event("Error:", exc))
    /\ pc' = IF frames < MaxFrames THEN "rotate" ELSE "finally"
    /\ UNCHANGED <<blvars, cvars, dvars, exc, screen, frames, bvars>>

\* except Exception as e: print("Error:", e)
except_Exception ==
    /\ pc = "except Exception"
    /\ out' = Append(out, Event("Error:", exc))
    /\ pc' = "finally"
    /\ UNCHANGED <<blvars, cvars, dvars, exc, screen, frames, bvars>>

\* finally: input("Press Enter to exit...") writes the prompt and blocks
finally ==
    /\ pc = "finally"
    /\ out' = Append(out, Event("Press Enter to exit...", ""))
    /\ pc' = "input"
    /\ UNCHANGED <<blvars, cvars, dvars, exc, screen, frames, bvars>>

\* the user presses Enter; the script ends
enter ==
    /\ pc = "input"
    /\ pc' = "exit"
    /\ UNCHANGED <<blvars, cvars, dvars, exc, out, screen, frames, bvars>>

Driver ==
    \/ start \/ rotate_all \/ project_all \/ composite \/ clear_screen
    \/ draw_frame \/ update_angles \/ sleep \/ KeyboardInterrupt
    \/ except_KeyboardInterrupt \/ except_Exception \/ finally \/ enter

----------------------------------------------------------------------------
\* Specifications

\* bresenham is not being run on its own
BresIdle ==
    /\ x1 = 0 /\ y1 = 0 /\ x2 = 0 /\ y2 = 0 /\ color1 = None /\ color2 = None
    /\ current_x = 0 /\ current_y = 0 /\ err = 0 /\ k = 0
    /\ points = <<>> /\ bpc = "idle"

\* the driver's variables before the try block has run
DriverIdle ==
    /\ use_colors = FALSE
    /\ angle_x = 0 /\ angle_y = 0 /\ angle_z = 0
    /\ rotated = <<>> /\ projected = <<>> /\ object_points = None
    /\ exc = None /\ out = <<>> /\ screen = <<>> /\ frames = 0

\* no script has been written
NoScript ==
    /\ WIDTH = 0 /\ HEIGHT = 0 /\ SCALE_X = 0 /\ SCALE_Y = 0
    /\ LINE_CHAR = "" /\ DIST = 0 /\ vertices = <<>> /\ edges = <<>>
    /\ rot_speed_x = 0 /\ rot_speed_y = 0 /\ rot_speed_z = 0

\* Blender with a scene and an edited panel, the operator not yet run
Init ==
    /\ active_object \in Objects
    /\ props \in { PropsOf(req) : req \in PanelRequests }
    /\ report = <<>>
    /\ pc = "blender"
    /\ NoScript /\ DriverIdle /\ BresIdle

Next == execute \/ run_script \/ Driver

Spec == Init /\ [][Next]_vars

\* values of DIST typed into the constants section of a written script
EditedDists == {-1, 4}

\* a written script whose DIST line has been edited, about to be run
InitScript ==
    /\ active_object \in { o \in Objects : o.type = "MESH" /\ Len(o.vertices) > 0 }
    /\ props \in { PropsOf(req) : req \in PanelRequests }
    /\ report = << Report("INFO", "Rotating ASCII script saved") >>
    /\ \E d \in EditedDists :
         LET t == ScriptText(active_object, props, d)
         IN  /\ WIDTH = t[1] /\ HEIGHT = t[2] /\ SCALE_X = t[3] /\ SCALE_Y = t[4]
             /\ LINE_CHAR = t[5] /\ DIST = t[6] /\ vertices = t[7] /\ edges = t[8]
             /\ rot_speed_x = t[9] /\ rot_speed_y = t[10] /\ rot_speed_z = t[11]
    /\ pc = "try"
    /\ DriverIdle /\ BresIdle

SpecScript == InitScript /\ [][Driver]_vars

----------------------------------------------------------------------------
\* Properties of the compositor

\* positions at which object_points is the composite of rotated and projected
AfterComposite == {"clear", "draw", "update", "sleep"}

EdgePoints(e) == EdgeLine(projected, rotated, edges, e, use_colors)

\* the edges whose rasterisation passes through cell c
Covering(c) == { e \in 1 .. Len(edges) : c \in PointSet(EdgePoints(e)) }

\* the colour edge e gives to cell c
ColorAt(e, c) ==
    LET pts == EdgePoints(e)
    IN  pts[CHOOSE i \in 1 .. Len(pts) : XY(pts[i]) = c][3]

Latest(S) == CHOOSE e \in S : \A f \in S : e >= f

\* C4: in colour mode, after all edges are composited, a cell covered by
\* several edges holds the colour given by the covering edge that is latest
\* in the edge list.
C4_LastWriteWins ==
    (pc \in AfterComposite /\ use_colors) =>
        \A c \in Cells :
            Covering(c) # {} =>
                /\ c \in DOMAIN object_points
                /\ object_points[c] = ColorAt(Latest(Covering(c)), c)

C4_Witness ==
    /\ pc = "clear" /\ use_colors
    /\ \E c \in Cells :
         /\ Cardinality(Covering(c)) >= 2
         /\ \E e \in Covering(c) : ColorAt(e, c) # ColorAt(Latest(Covering(c)), c)

\* every coordinate the edges rasterise to in this frame
Rasterised == UNION { PointSet(EdgePoints(e)) : e \in 1 .. Len(edges) }

\* a composite step that the user does not interrupt
CompositeStep == pc = "composite" /\ pc' # pc /\ exc' # "KeyboardInterrupt"

\* C5: in both modes every coordinate in the frame point set of a frame lies
\* in [0, WIDTH) x [0, HEIGHT); the rasterised points outside it, and only
\* they, are dropped, and the composite step that drops them goes on to the
\* clear step with no exception raised.
C5_BoundsDiscard ==
    /\ [](pc \in AfterComposite =>
            Keys(object_points, use_colors) \subseteq Cells)
    /\ [](pc \in AfterComposite =>
            Keys(object_points, use_colors) = Rasterised \cap Cells)
    /\ [][CompositeStep => (pc' = "clear" /\ exc' = None)]_vars

C5_Witness ==
    /\ pc = "clear"
    /\ Rasterised \ Cells # {}
    /\ Keys(object_points, use_colors) # {}

----------------------------------------------------------------------------
\* Properties of the animation driver

Messages == {"Animation stopped.", "Error:"}
Prompt == "Press Enter to exit..."

\* a step taken outside Running
TerminatedStep ==
    pc \in TerminatedPcs =>
            /\ pc' \in TerminatedPcs
            /\ frames' = frames /\ screen' = screen
            /\ out' # out =>
                 \/ /\ exc = "KeyboardInterrupt"
                    /\ out' = Append(out, Event("Animation stopped.", ""))
                    /\ \A i \in 1 .. Len(out) : out[i].kind \notin Messages \cup {Prompt}
                 \/ /\ exc \notin {None, "KeyboardInterrupt"}
                    /\ out' = Append(out, Event("Error:", exc))
                    /\ \A i \in 1 .. Len(out) : out[i].kind \notin Messages \cup {Prompt}
                 \/ /\ out' = Append(out, Event(Prompt, ""))
                    /\ out # <<>> /\ out[Len(out)].kind \in Messages

\* C6: once the driver has left Running it stays out of it and presents no
\* further frame; what it writes afterwards is one termination message -- the
\* user-stop message exactly when the cause was the interrupt, otherwise the
\* error message with the fault's detail -- and then the prompt.
C6_Terminated ==
    /\ [][TerminatedStep]_vars
    /\ [](pc \in {"input", "exit"} =>
            /\ Len(out) >= 2
            /\ out[Len(out)].kind = Prompt
            /\ out[Len(out) - 1].kind \in Messages)

C6_Witness ==
    /\ pc = "exit"
    /\ exc \notin {None, "KeyboardInterrupt"}
    /\ out[Len(out) - 1] = Event("Error:", exc)

\* C7: a script is written, run and its loop entered only for a mesh with at
\* least one vertex and a canvas of positive width and height; for an empty
\* mesh nothing is presented.
C7_ConfigRejected ==
    /\ pc \in {"FINISHED"} \cup RunningPcs \cup TerminatedPcs =>
          Len(vertices) > 0 /\ WIDTH > 0 /\ HEIGHT > 0
    /\ (active_object.type = "MESH" /\ Len(active_object.vertices) = 0) =>
          pc \in {"blender", "CANCELLED"} /\ frames = 0 /\ out = <<>>

C7_Witness ==
    /\ pc = "CANCELLED"
    /\ active_object.type = "MESH" /\ Len(active_object.vertices) = 0
    /\ report = << Report("ERROR", "Mesh has no vertices") >>

ZeroDivisorStep ==
    pc = "project" /\ DivisionByZero(rotated) /\ pc' # pc /\ exc' # "KeyboardInterrupt"

\* ZeroDivisionError reaches the handler and the frame is abandoned
Raised ==
    /\ pc' = "except Exception"
    /\ exc' = "float division by zero"
    /\ UNCHANGED <<projected, object_points, out, screen, frames>>

RECURSIVE Count(_, _)
Count(log, kind) ==
    IF log = <<>> THEN 0
    ELSE (IF log[1].kind = kind THEN 1 ELSE 0) + Count(Tail(log), kind)

\* the stage that follows each stage of an iteration
Successor ==
    [ p \in LoopPcs |->
        CASE p = "rotate" -> "project" [] p = "project" -> "composite"
          [] p = "composite" -> "clear" [] p = "clear" -> "draw"
          [] p = "draw" -> "update" [] p = "update" -> "sleep"
          [] OTHER -> "rotate" ]

\* the frame the pipeline yields for iteration n
FrameOf(n) ==
    LET rot == RotateAll(vertices, n * rot_speed_x, n * rot_speed_y, n * rot_speed_z)
        op  == Composite(ProjectAll(rot), rot, edges, use_colors)
    IN  [c \in Cells |-> CellText(op, c, use_colors)]

\* the iteration the driver is in, counted from 0
Iteration == IF pc = "update" THEN frames - 1 ELSE frames

\* a step from one stage of the loop to another
LoopStep == pc \in LoopPcs /\ pc' \in LoopPcs /\ pc' # pc

InOrder ==
    /\ pc' = Successor[pc]
    /\ pc # "update" => UNCHANGED <<angle_x, angle_y, angle_z>>

\* C10: an iteration runs rotate, project, composite, clear (once), draw,
\* increment, sleep in that order; the angles start at zero and change only in
\* the increment step; the frame presented in iteration n is computed with
\* angles n times the per-axis speeds.
C10_IterationOrder ==
    /\ [][LoopStep => InOrder]_vars
    /\ [](pc \in LoopPcs =>
            /\ angle_x = Iteration * rot_speed_x
            /\ angle_y = Iteration * rot_speed_y
            /\ angle_z = Iteration * rot_speed_z
            /\ Count(out, "clear") = frames + (IF pc = "draw" THEN 1 ELSE 0)
            /\ Count(out, "frame") = frames
            /\ pc = "update" => screen = FrameOf(Iteration))

C10_Witness ==
    /\ pc = "update" /\ frames = 2
    /\ rot_speed_y = 1 /\ rot_speed_z = 2
    /\ screen # FrameOf(0)

----------------------------------------------------------------------------
\* bresenham run one loop iteration at a time

Coords == 0 .. MaxCoord

\* colours the endpoints may carry (8-bit channels)
Colors == { <<0, 0, 0>>, <<255, 127, 0>>, <<10, 200, 255>> }

CurLine == Line(x1, y1, x2, y2, color1, color2)
CurSt == [x |-> current_x, y |-> current_y, err |-> err, k |-> k]

BresCall(a1, b1, a2, b2, c1, c2) ==
    LET ln == Line(a1, b1, a2, b2, c1, c2)
        st == BresStart(ln)
    IN  /\ x1 = a1 /\ y1 = b1 /\ x2 = a2 /\ y2 = b2
        /\ color1 = c1 /\ color2 = c2
        /\ current_x = st.x /\ current_y = st.y /\ err = st.err /\ k = st.k
        /\ points = <<>>
        /\ bpc = "loop"

InitBres ==
    /\ active_object = NoObject
    /\ props = PropsOf(CHOOSE req \in PanelRequests : TRUE)
    /\ report = <<>>
    /\ pc = "bresenham"
    /\ NoScript /\ DriverIdle
    /\ \E a1 \in Coords, b1 \in Coords, a2 \in Coords, b2 \in Coords :
        \/ BresCall(a1, b1, a2, b2, None, None)
        \/ \E c1 \in Colors, c2 \in Colors : BresCall(a1, b1, a2, b2, c1, c2)

\* an iteration that appends the point and breaks
BresBreak ==
    /\ bpc = "loop"
    /\ AtEnd(CurLine, CurSt)
    /\ points' = Append(points, Emit(CurLine, CurSt))
    /\ bpc' = "done"
    /\ UNCHANGED <<x1, y1, x2, y2, color1, color2, current_x, current_y, err, k>>
    /\ UNCHANGED <<blvars, cvars, dvars, tvars>>

\* an iteration that appends the point and steps
BresStep ==
    /\ bpc = "loop"
    /\ ~AtEnd(CurLine, CurSt)
    /\ points' = Append(points, Emit(CurLine, CurSt))
    /\ LET st == Advance(CurLine, CurSt)
       IN  /\ current_x' = st.x /\ current_y' = st.y
           /\ err' = st.err /\ k' = st.k
    /\ UNCHANGED <<x1, y1, x2, y2, color1, color2, bpc>>
    /\ UNCHANGED <<blvars, cvars, dvars, tvars>>

NextBres == BresBreak \/ BresStep

SpecBres == InitBres /\ [][NextBres]_vars

\* the loop is a sequential computation: an enabled iteration is executed
FairSpecBres == SpecBres /\ WF_vars(NextBres)

----------------------------------------------------------------------------
\* Properties of bresenham

BresDone == bpc = "done"

\* the same segment rasterised from P2 to P1
Reverse == bresenham(x2, y2, x1, y1, color2, color1)

\* C1: the returned sequence starts at P1 = (x1, y1) and ends at P2 = (x2, y2),
\* coincident endpoints included.
C1_Endpoints ==
    /\ points # <<>> => XY(points[1]) = <<x1, y1>>
    /\ BresDone => /\ points # <<>>
                   /\ XY(points[Len(points)]) = <<x2, y2>>

C1_Witness ==
    /\ BresDone
    /\ Abs(x2 - x1) >= 2 /\ Abs(y2 - y1) >= 1 /\ Abs(x2 - x1) # Abs(y2 - y1)
    /\ Len(points) >= 3

\* C2 as stated: the points of P1 -> P2 and of P2 -> P1 are the same set,
\* for every pair of endpoints.
C2_Symmetric == BresDone => PointSet(points) = PointSet(Reverse)

\* the segments on which no iteration meets an exact tie (2 * err never lands
\* on the threshold of the minor axis): axis-parallel, diagonal, or of odd
\* major length
NoTie == \/ Dx(CurLine) = 0
         \/ Dy(CurLine) = 0
         \/ Dx(CurLine) = Dy(CurLine)
         \/ Max2(Dx(CurLine), Dy(CurLine)) % 2 = 1

\* C2 amended: the two directions give the same set of points when the segment
\* is horizontal, vertical, diagonal or has an odd major length; in every case
\* they give the same number of points.
C2_SymmetricNoTie ==
    BresDone => /\ Len(points) = Len(Reverse)
                /\ NoTie => PointSet(points) = PointSet(Reverse)

C2_Witness ==
    /\ BresDone
    /\ Dx(CurLine) = 3 /\ Dy(CurLine) = 1
    /\ PointSet(points) = PointSet(Reverse)

ColorOf(pt) == pt[3]

\* C3 as stated: in a coloured call the first point carries color1 and the last
\* point carries color2, coincident endpoints included.
C3_BoundaryColors ==
    (BresDone /\ UseCol(CurLine)) =>
        /\ ColorOf(points[1]) = color1
        /\ ColorOf(points[Len(points)]) = color2

\* C3 amended: the first point carries color1; the last point carries color2
\* when the endpoints differ; when the endpoints coincide the single point
\* carries color1.
C3_BoundaryColorsDistinct ==
    (BresDone /\ UseCol(CurLine)) =>
        /\ ColorOf(points[1]) = color1
        /\ (x1 # x2 \/ y1 # y2) => ColorOf(points[Len(points)]) = color2
        /\ (x1 = x2 /\ y1 = y2) => /\ Len(points) = 1
                                   /\ ColorOf(points[1]) = color1

C3_Witness ==
    /\ BresDone /\ UseCol(CurLine)
    /\ color1 # color2
    /\ Dx(CurLine) # Dy(CurLine) /\ Dx(CurLine) >= 1 /\ Dy(CurLine) >= 1
    /\ ColorOf(points[Len(points)]) = color2

LengthBound == Max2(Dx(CurLine), Dy(CurLine)) + 1

\* C9: the loop terminates, and the sequence never holds more than
\* max(dx, dy) + 1 points.
C9_TerminatesBounded ==
    /\ [](Len(points) <= LengthBound)
    /\ <>BresDone

C9_Witness ==
    /\ BresDone
    /\ Dx(CurLine) >= 1 /\ Dy(CurLine) > Dx(CurLine)
    /\ Len(points) = LengthBound

====
